---- MODULE Spec2Model ----
(***************************************************************************)
(* A model of the JSONL exporter of imessage-exporter                       *)
(* (src/exporters/jsonl.rs) and of the export type selector                 *)
(* (src/app/export_type.rs).                                                *)
(*                                                                          *)
(* The exporter streams the rows of the message table once, drops a row     *)
(* whose ROWID equals the ROWID of the row rendered last, serializes every  *)
(* other row to one JSON line and appends it to the file of the row's       *)
(* conversation, or to the orphaned file when the row has no conversation.  *)
(***************************************************************************)
EXTENDS Integers, Sequences, FiniteSets, TLC

VARIABLES
    token,                \* the --format argument given on the command line
    export_type,          \* ExportType::from_cli(token), "unparsed" before the call
    pc,                   \* position of iter_messages
    result,               \* what iter_messages returned
    files,                \* JSONL.files : HashMap<i32, PathBuf>
    orphaned,             \* JSONL.orphaned : PathBuf
    disk,                 \* the export directory: path -> contents written so far
    current_message_row,  \* local of iter_messages
    current_message,      \* local of iter_messages
    positions,            \* the arguments of pb.set_position, in call order
    pb_finished,          \* pb.finish() has been called
    cursor,               \* the rows the cursor has yielded so far, in order
    outcome,              \* outcome[i]: what the loop did with cursor[i]
    creations             \* the chat ids whose path was built (or_insert_with ran), in order

vars == <<token, export_type, pc, result, files, orphaned, disk, current_message_row,
          current_message, positions, pb_finished, cursor, outcome, creations>>

-----------------------------------------------------------------------------
(* Bounds of the model *)

\* longest cursor of the exhaustive specification
MaxLen == 3

\* message ROWIDs are 1..MaxRowId (an AUTOINCREMENT key is positive)
MaxRowId == 2

\* longest cursor of the long-run specification
MaxLong == 200

\* rows next to a multiple of the progress step that are chosen freely
Window == 1

-----------------------------------------------------------------------------
(* Export type selection: src/app/export_type.rs *)

\* the ASCII upper-case letters of the model's alphabet and their lower case
UpperToLower ==
    ("T" :> "t") @@ ("X" :> "x") @@ ("H" :> "h") @@ ("M" :> "m") @@ ("L" :> "l") @@
    ("J" :> "j") @@ ("S" :> "s") @@ ("O" :> "o") @@ ("N" :> "n") @@ ("P" :> "p") @@
    ("D" :> "d") @@ ("F" :> "f") @@ ("C" :> "c") @@ ("V" :> "v")

\* char::to_lowercase on one character
LowerChar(c) == IF c \in DOMAIN UpperToLower THEN UpperToLower[c] ELSE c

\* str::to_lowercase: character by character
to_lowercase(s) == [i \in 1..Len(s) |-> LowerChar(s[i])]

\* mutant of from_cli: the token is matched as given
from_cli_exact(platform) ==
    CASE platform = <<"t", "x", "t">> -> "Txt"
      [] platform = <<"h", "t", "m", "l">> -> "Html"
      [] platform = <<"j", "s", "o", "n", "l">> -> "Jsonl"
      [] OTHER -> "None"

\* ExportType::from_cli
from_cli(platform) ==
    LET lowered == to_lowercase(platform)
    IN  CASE lowered = <<"t", "x", "t">> -> "Txt"
          [] lowered = <<"h", "t", "m", "l">> -> "Html"
          [] lowered = <<"j", "s", "o", "n", "l">> -> "Jsonl"
          [] OTHER -> "None"

\* enum ExportType
Variants == {"Html", "Txt", "Jsonl"}

\* mutant of fmt: the JSONL export is displayed as "json"
fmt_json(self) ==
    CASE self = "Txt" -> <<"t", "x", "t">>
      [] self = "Html" -> <<"h", "t", "m", "l">>
      [] self = "Jsonl" -> <<"j", "s", "o", "n">>

\* impl Display for ExportType
fmt(self) ==
    CASE self = "Txt" -> <<"t", "x", "t">>
      [] self = "Html" -> <<"h", "t", "m", "l">>
      [] self = "Jsonl" -> <<"j", "s", "o", "n", "l">>

\* the upper case of a lower-case letter of the alphabet
UpperChar(c) ==
    IF \E u \in DOMAIN UpperToLower : UpperToLower[u] = c
    THEN CHOOSE u \in DOMAIN UpperToLower : UpperToLower[u] = c
    ELSE c

\* the spellings of word w with any of its letters in upper case
CaseVariants(w) ==
    { [i \in 1..Len(w) |-> IF i \in up THEN UpperChar(w[i]) ELSE w[i]] :
        up \in SUBSET (1..Len(w)) }

\* the words whose spellings are given on the command line: the three export
\* types, other formats, the empty string and near misses
Words ==
    { <<"t", "x", "t">>, <<"h", "t", "m", "l">>, <<"j", "s", "o", "n", "l">>,
      <<"p", "d", "f">>, <<"c", "s", "v">>, <<>>,
      <<"j", "s", "o", "n">>, <<"h", "t", "m">>, <<"t", "x", "t", "x">>,
      <<"t", "x", "t", " ">> }

Tokens == UNION { CaseVariants(w) : w \in Words }

-----------------------------------------------------------------------------
(* Rows, conversations and paths *)

\* Message.chat_id of a row that belongs to no chat (Option::None)
NoChat == 0

\* Config.chatrooms: the chats of the database
Chatrooms == {1, 2, 3}

\* Config.real_chatrooms: chats with the same participants share one id
real_chatrooms == (1 :> 1) @@ (2 :> 1) @@ (3 :> 2)

RowIds == 1..MaxRowId

\* what reading a row can run into: nothing, Message::extract fails,
\* gen_text fails, serde_json::to_string fails
Kinds == {"ok", "extract_fail", "gen_fail", "ser_fail"}

Rows == [rowid : RowIds, chat_id : Chatrooms \cup {NoChat}, kind : Kinds]

\* table::ORPHANED
ORPHANED == <<"orphaned", 0>>

\* config.options.export_path
export_path == [dir |-> "export", stem |-> <<"", 0>>, ext |-> ""]

\* PathBuf::push of a file name onto a directory
push(path, name) == [dir |-> path.dir, stem |-> name.stem, ext |-> name.ext]

\* PathBuf::set_extension: replaces the extension the file name has
set_extension(path, ext) == [path EXCEPT !.ext = ext]

\* a file name without extension
PlainName(stem) == [stem |-> stem, ext |-> ""]

\* Config::conversation: the chat a message belongs to and its deduplicated id
conversation(message) ==
    IF message.chat_id \in Chatrooms
    THEN [some |-> TRUE, chatroom |-> message.chat_id, id |-> real_chatrooms[message.chat_id]]
    ELSE [some |-> FALSE, chatroom |-> NoChat, id |-> NoChat]

\* Config::filename: the file name of a chat, a different one for every chat;
\* the name of chat 3 ends in a dot and a suffix, as an e-mail address does
filename(chatroom) ==
    IF chatroom = 3
    THEN [stem |-> <<"chat", chatroom>>, ext |-> "com"]
    ELSE PlainName(<<"chat", chatroom>>)

-----------------------------------------------------------------------------
(* The exporter: src/exporters/jsonl.rs *)

\* the step of the progress updates
ProgressStep == 99

\* mutant of new: the files of all chats are built when the exporter is constructed
new_eager ==
    [files |-> [id \in {real_chatrooms[c] : c \in Chatrooms} |->
                  set_extension(push(export_path, PlainName(<<"chat", id>>)), "jsonl")],
     orphaned |-> set_extension(push(export_path, PlainName(ORPHANED)), "jsonl")]

\* JSONL::new: no file is cached and the orphaned path is fixed
new ==
    [files |-> [id \in {} |-> export_path],
     orphaned |-> set_extension(push(export_path, PlainName(ORPHANED)), "jsonl")]

\* mutant of get_or_create_file: the path is built from the chat on every call
\* (HashMap::insert in place of entry().or_insert_with())
get_or_create_file_uncached(fs, orph, message) ==
    LET conv == conversation(message)
    IN  IF conv.some
        THEN LET path == set_extension(push(export_path, filename(conv.chatroom)), "jsonl")
             IN  [files |-> (conv.id :> path) @@ fs, path |-> path, created |-> <<conv.id>>]
        ELSE [files |-> fs, path |-> orph, created |-> <<>>]

\* mutant of get_or_create_file: a message without conversation gets a cache entry
\* of its own, with a path built on the first such message
get_or_create_file_orphan_cached(fs, orph, message) ==
    LET conv == conversation(message)
        path == set_extension(push(export_path, filename(conv.chatroom)), "jsonl")
    IN  IF conv.id \in DOMAIN fs
        THEN [files |-> fs, path |-> fs[conv.id], created |-> <<>>]
        ELSE [files |-> (conv.id :> path) @@ fs, path |-> path, created |-> <<conv.id>>]

\* JSONL::get_or_create_file: the path of the message's conversation, built and
\* cached on the first request for its id; the orphaned path without one
get_or_create_file(fs, orph, message) ==
    LET conv == conversation(message)
    IN  IF conv.some
        THEN IF conv.id \in DOMAIN fs
             THEN [files |-> fs, path |-> fs[conv.id], created |-> <<>>]
             ELSE LET path == set_extension(push(export_path, filename(conv.chatroom)), "jsonl")
                  IN  [files |-> (conv.id :> path) @@ fs, path |-> path, created |-> <<conv.id>>]
        ELSE [files |-> fs, path |-> orph, created |-> <<>>]

\* Message::gen_text: fills the text of the message; a failure leaves it empty
gen_text(row) == IF row.kind = "gen_fail" THEN "none" ELSE "text"

\* the newline that ends a line of a file
NL == [tok |-> "nl", rowid |-> 0, chat_id |-> 0, text |-> ""]

\* mutant of to_string: the message is pretty-printed over two lines
\* (serde_json::to_string_pretty)
to_string_pretty(row) ==
    <<[tok |-> "json", rowid |-> row.rowid, chat_id |-> row.chat_id, text |-> gen_text(row)],
      NL,
      [tok |-> "json", rowid |-> row.rowid, chat_id |-> row.chat_id, text |-> "}"]>>

\* serde_json::to_string(&msg): the message as one JSON value, holding no raw newline
to_string(row) ==
    <<[tok |-> "json", rowid |-> row.rowid, chat_id |-> row.chat_id, text |-> gen_text(row)]>>

\* TXT::write_to_file: opens the file at path, creating it when missing, and appends text
write_to_file(d, path, text) ==
    IF path \in DOMAIN d
    THEN [d EXCEPT ![path] = @ \o text]
    ELSE (path :> text) @@ d

\* mutant of same_rowid: a row is dropped unless its ROWID is new and larger
same_rowid_or_older(rowid, last) == rowid <= last

\* the early escape of the loop: the row has the ROWID of the row rendered last
same_rowid(rowid, last) == rowid = last

\* the progress bar is moved when the count is a multiple of the step
progress_due(n) == n % ProgressStep = 0

\* mutant of set_position: the count before the increment is reported
set_position_before_count(ps, n) == IF progress_due(n) THEN Append(ps, n - 1) ELSE ps

\* pb.set_position(current_message) behind its guard
set_position(ps, n) == IF progress_due(n) THEN Append(ps, n) ELSE ps

TypeOK ==
    /\ pc \in {"cli", "parsed", "variant", "shown", "roundtrip",
              "start", "stream", "query", "loop", "returned", "panicked"}
    /\ result \in {"none", "Ok", "Err", "Panic"}
    /\ export_type \in {"unparsed", "None", "Txt", "Html", "Jsonl"}
    /\ current_message \in Nat
    /\ pb_finished \in BOOLEAN
    /\ Len(outcome) = Len(cursor)

Init ==
    /\ token = <<"j", "s", "o", "n", "l">>
    /\ export_type = from_cli(token)
    /\ pc = "start"
    /\ result = "none"
    /\ files = new.files
    /\ orphaned = new.orphaned
    /\ disk = [p \in {} |-> <<>>]
    /\ current_message_row = -1
    /\ current_message = 0
    /\ positions = <<>>
    /\ pb_finished = FALSE
    /\ cursor = <<>>
    /\ outcome = <<>>
    /\ creations = <<>>

\* a failed database call returns RuntimeError::DatabaseError through `?`
ReturnErr ==
    /\ pc' = "returned"
    /\ result' = "Err"

\* mutant of GetCount: the ROWID remembered at the start is 1, a ROWID of the table
GetCount_sentinel_is_rowid(ok) ==
    /\ pc = "start"
    /\ current_message_row' = 1
    /\ current_message' = 0
    /\ IF ok THEN pc' = "stream" /\ result' = result ELSE ReturnErr
    /\ UNCHANGED <<token, export_type, files, orphaned, disk, positions, pb_finished,
                   cursor, outcome, creations>>

\* iter_messages up to Message::get_count
GetCount(ok) ==
    /\ pc = "start"
    /\ current_message_row' = -1
    /\ current_message' = 0
    /\ IF ok THEN pc' = "stream" /\ result' = result ELSE ReturnErr
    /\ UNCHANGED <<token, export_type, files, orphaned, disk, positions, pb_finished,
                   cursor, outcome, creations>>

\* build_progress_bar_export and Message::stream_rows
StreamRows(ok) ==
    /\ pc = "stream"
    /\ IF ok THEN pc' = "query" /\ result' = result ELSE ReturnErr
    /\ UNCHANGED <<token, export_type, files, orphaned, disk, current_message_row,
                   current_message, positions, pb_finished, cursor, outcome, creations>>

\* statement.query_map
QueryMap(ok) ==
    /\ pc = "query"
    /\ IF ok THEN pc' = "loop" /\ result' = result ELSE ReturnErr
    /\ UNCHANGED <<token, export_type, files, orphaned, disk, current_message_row,
                   current_message, positions, pb_finished, cursor, outcome, creations>>

\* mutant of ExtractError: the row that cannot be read is dropped and the loop goes on
ExtractError_swallowed(row) ==
    /\ pc = "loop"
    /\ row.kind = "extract_fail"
    /\ cursor' = Append(cursor, row)
    /\ outcome' = Append(outcome, "extract_failed")
    /\ UNCHANGED <<token, export_type, pc, result, files, orphaned, disk,
                   current_message_row, current_message, positions, pb_finished, creations>>

\* one turn of the loop: Message::extract fails and the error is returned
ExtractError(row) ==
    /\ pc = "loop"
    /\ row.kind = "extract_fail"
    /\ cursor' = Append(cursor, row)
    /\ outcome' = Append(outcome, "extract_failed")
    /\ ReturnErr
    /\ UNCHANGED <<token, export_type, files, orphaned, disk, current_message_row,
                   current_message, positions, pb_finished, creations>>

\* mutant of SkipDuplicate: the file of the row is looked up before the early escape
SkipDuplicate_creates(row) ==
    /\ pc = "loop"
    /\ row.kind # "extract_fail"
    /\ same_rowid(row.rowid, current_message_row)
    /\ cursor' = Append(cursor, row)
    /\ outcome' = Append(outcome, "skipped")
    /\ LET got == get_or_create_file(files, orphaned, row)
       IN  /\ files' = got.files
           /\ creations' = creations \o got.created
    /\ current_message' = current_message + 1
    /\ UNCHANGED <<token, export_type, pc, result, orphaned, disk,
                   current_message_row, positions, pb_finished>>

\* mutant of SkipDuplicate: the dropped row is not counted
SkipDuplicate_uncounted(row) ==
    /\ pc = "loop"
    /\ row.kind # "extract_fail"
    /\ same_rowid(row.rowid, current_message_row)
    /\ cursor' = Append(cursor, row)
    /\ outcome' = Append(outcome, "skipped")
    /\ UNCHANGED <<token, export_type, pc, result, files, orphaned, disk,
                   current_message_row, current_message, positions, pb_finished, creations>>

\* one turn of the loop: the early escape, the row is counted and dropped
SkipDuplicate(row) ==
    /\ pc = "loop"
    /\ row.kind # "extract_fail"
    /\ same_rowid(row.rowid, current_message_row)
    /\ cursor' = Append(cursor, row)
    /\ outcome' = Append(outcome, "skipped")
    /\ current_message' = current_message + 1
    /\ UNCHANGED <<token, export_type, pc, result, files, orphaned, disk,
                   current_message_row, positions, pb_finished, creations>>

\* one turn of the loop: to_string(&msg).unwrap() panics
SerializePanic(row) ==
    /\ pc = "loop"
    /\ row.kind = "ser_fail"
    /\ ~same_rowid(row.rowid, current_message_row)
    /\ cursor' = Append(cursor, row)
    /\ outcome' = Append(outcome, "panicked")
    /\ current_message_row' = row.rowid
    /\ pc' = "panicked"
    /\ result' = "Panic"
    /\ UNCHANGED <<token, export_type, files, orphaned, disk, current_message,
                   positions, pb_finished, creations>>

\* mutant of Render: the file is written anew with the message (std::fs::write)
\* in place of being appended to
Render_overwrite(row) ==
    /\ pc = "loop"
    /\ row.kind \in {"ok", "gen_fail"}
    /\ ~same_rowid(row.rowid, current_message_row)
    /\ cursor' = Append(cursor, row)
    /\ outcome' = Append(outcome, "rendered")
    /\ current_message_row' = row.rowid
    /\ LET message == to_string(row) \o <<NL>>
           got == get_or_create_file(files, orphaned, row)
       IN  /\ files' = got.files
           /\ creations' = creations \o got.created
           /\ disk' = (got.path :> message) @@ disk
    /\ current_message' = current_message + 1
    /\ positions' = set_position(positions, current_message')
    /\ UNCHANGED <<token, export_type, pc, result, orphaned, pb_finished>>

\* one turn of the loop: the row is rendered, written, counted and reported
Render(row) ==
    /\ pc = "loop"
    /\ row.kind \in {"ok", "gen_fail"}
    /\ ~same_rowid(row.rowid, current_message_row)
    /\ cursor' = Append(cursor, row)
    /\ outcome' = Append(outcome, "rendered")
    /\ current_message_row' = row.rowid
    /\ LET message == to_string(row) \o <<NL>>
           got == get_or_create_file(files, orphaned, row)
       IN  /\ files' = got.files
           /\ creations' = creations \o got.created
           /\ disk' = write_to_file(disk, got.path, message)
    /\ current_message' = current_message + 1
    /\ positions' = set_position(positions, current_message')
    /\ UNCHANGED <<token, export_type, pc, result, orphaned, pb_finished>>

\* mutant of Finish: a run that exported nothing is reported as an error
Finish_empty_is_error ==
    /\ pc = "loop"
    /\ pb_finished' = (current_message > 0)
    /\ pc' = "returned"
    /\ result' = IF current_message > 0 THEN "Ok" ELSE "Err"
    /\ UNCHANGED <<token, export_type, files, orphaned, disk, current_message_row,
                   current_message, positions, cursor, outcome, creations>>

\* the cursor is exhausted: pb.finish() and Ok(())
Finish ==
    /\ pc = "loop"
    /\ pb_finished' = TRUE
    /\ pc' = "returned"
    /\ result' = "Ok"
    /\ UNCHANGED <<token, export_type, files, orphaned, disk, current_message_row,
                   current_message, positions, cursor, outcome, creations>>

\* the rows the cursor may yield next in the exhaustive specification
NextRows == IF Len(cursor) < MaxLen THEN Rows ELSE {}

Next ==
    \/ \E ok \in BOOLEAN : GetCount(ok)
    \/ \E ok \in BOOLEAN : StreamRows(ok)
    \/ \E ok \in BOOLEAN : QueryMap(ok)
    \/ \E row \in NextRows : ExtractError(row)
    \/ \E row \in NextRows : SkipDuplicate(row)
    \/ \E row \in NextRows : SerializePanic(row)
    \/ \E row \in NextRows : Render(row)
    \/ Finish

Spec == Init /\ [][Next]_vars

-----------------------------------------------------------------------------
(* Long runs: the cursor yields up to MaxLong rows. Row i has ROWID i and no  *)
(* chat, except next to a multiple of the progress step, where it may repeat  *)
(* the ROWID before it and reading it may fail.                               *)

NearStep(i) == \E k \in (0 - Window)..Window : i + k > 0 /\ (i + k) % ProgressStep = 0

LongRows(i) ==
    IF NearStep(i)
    THEN [rowid : {i - 1, i}, chat_id : {NoChat}, kind : {"ok", "extract_fail", "ser_fail"}]
    ELSE [rowid : {i}, chat_id : {NoChat}, kind : {"ok"}]

NextLongRows == IF Len(cursor) < MaxLong THEN LongRows(Len(cursor) + 1) ELSE {}

NextLong ==
    \/ \E ok \in BOOLEAN : GetCount(ok)
    \/ \E ok \in BOOLEAN : StreamRows(ok)
    \/ \E ok \in BOOLEAN : QueryMap(ok)
    \/ \E row \in NextLongRows : ExtractError(row)
    \/ \E row \in NextLongRows : SkipDuplicate(row)
    \/ \E row \in NextLongRows : SerializePanic(row)
    \/ \E row \in NextLongRows : Render(row)
    \/ Finish

SpecLong == Init /\ [][NextLong]_vars

-----------------------------------------------------------------------------
(* The command line: any token is given and from_cli resolves it. *)

InitCli ==
    /\ token \in Tokens
    /\ export_type = "unparsed"
    /\ pc = "cli"
    /\ result = "none"
    /\ files = new.files
    /\ orphaned = new.orphaned
    /\ disk = [p \in {} |-> <<>>]
    /\ current_message_row = -1
    /\ current_message = 0
    /\ positions = <<>>
    /\ pb_finished = FALSE
    /\ cursor = <<>>
    /\ outcome = <<>>
    /\ creations = <<>>

\* the caller resolves the token once
ParseCli ==
    /\ pc = "cli"
    /\ export_type' = from_cli(token)
    /\ pc' = "parsed"
    /\ UNCHANGED <<token, result, files, orphaned, disk, current_message_row,
                   current_message, positions, pb_finished, cursor, outcome, creations>>

NextCli == ParseCli

SpecCli == InitCli /\ [][NextCli]_vars

-----------------------------------------------------------------------------
(* Display: a variant is written with its Display implementation and the     *)
(* name is given back to from_cli.                                            *)

InitDisplay ==
    /\ token = <<>>
    /\ export_type \in Variants
    /\ pc = "variant"
    /\ result = "none"
    /\ files = new.files
    /\ orphaned = new.orphaned
    /\ disk = [p \in {} |-> <<>>]
    /\ current_message_row = -1
    /\ current_message = 0
    /\ positions = <<>>
    /\ pb_finished = FALSE
    /\ cursor = <<>>
    /\ outcome = <<>>
    /\ creations = <<>>

\* the variant is formatted: export_type.to_string()
Display ==
    /\ pc = "variant"
    /\ token' = fmt(export_type)
    /\ pc' = "shown"
    /\ UNCHANGED <<export_type, result, files, orphaned, disk, current_message_row,
                   current_message, positions, pb_finished, cursor, outcome, creations>>

\* the displayed name is resolved by from_cli
ParseShown ==
    /\ pc = "shown"
    /\ export_type' = from_cli(token)
    /\ pc' = "roundtrip"
    /\ UNCHANGED <<token, result, files, orphaned, disk, current_message_row,
                   current_message, positions, pb_finished, cursor, outcome, creations>>

NextDisplay == ParseCli \/ Display \/ ParseShown

SpecDisplay == (InitCli \/ InitDisplay) /\ [][NextDisplay]_vars

-----------------------------------------------------------------------------
(* Vocabulary of the properties *)

\* the rows whose turn of the loop ran to its end; the run stops at any other row
Handled == {i \in 1..Len(cursor) : outcome[i] \in {"rendered", "skipped"}}

RenderedRows == {i \in 1..Len(cursor) : outcome[i] = "rendered"}

SkippedRows == {i \in 1..Len(cursor) : outcome[i] = "skipped"}

\* row i starts a run of equal ROWIDs
Leader(i) == i = 1 \/ cursor[i - 1].rowid # cursor[i].rowid

\* rows a..b are a run of equal ROWIDs that no handled row extends
MaximalRun(a, b) ==
    /\ a <= b
    /\ \A i \in a..b : cursor[i].rowid = cursor[a].rowid
    /\ Leader(a)
    /\ (b + 1) \in Handled => cursor[b + 1].rowid # cursor[b].rowid

\* the places of the export directory: a path and an index into its contents
Places == UNION { {<<p, i>> : i \in 1..Len(disk[p])} : p \in DOMAIN disk }

\* the places that hold a serialized message
Units == {pl \in Places : disk[pl[1]][pl[2]].tok = "json"}

\* the group a serialized message belongs to: its deduplicated chat id, or NoChat
GroupOf(unit) == IF unit.chat_id \in Chatrooms THEN real_chatrooms[unit.chat_id] ELSE NoChat

\* the groups whose messages a file holds
GroupsIn(p) == {GroupOf(disk[pl[1]][pl[2]]) : pl \in {u \in Units : u[1] = p}}

\* the first element of a non-empty set of row indices
First(S) == CHOOSE i \in S : \A j \in S : i <= j

\* the path built for a chat
PathOf(chatroom) == set_extension(push(export_path, filename(chatroom)), "jsonl")

-----------------------------------------------------------------------------
(* Properties *)

\* C1: among the rows handled so far, every maximal run of k > 1 adjacent rows
\* with the same ROWID has exactly 1 rendered row and k - 1 skipped rows; every
\* row that starts a run is rendered even when an earlier, non-adjacent row has
\* the same ROWID; and the files hold, for every ROWID, as many serialized
\* messages as the handled rows have runs of that ROWID.
C1_AdjacentDedup ==
    /\ \A a, b \in Handled :
          (MaximalRun(a, b) /\ b > a) =>
              /\ Cardinality((a..b) \cap RenderedRows) = 1
              /\ Cardinality((a..b) \cap SkippedRows) = b - a
    /\ \A i, j \in Handled :
          (i < j /\ Leader(i) /\ Leader(j) /\ cursor[i].rowid = cursor[j].rowid) =>
              (i \in RenderedRows /\ j \in RenderedRows)
    /\ \A r \in {cursor[i].rowid : i \in Handled} :
          Cardinality({u \in Units : disk[u[1]][u[2]].rowid = r})
            = Cardinality({a \in Handled : Leader(a) /\ cursor[a].rowid = r})

\* C1 witness: the rows 1, 1, 2 were handled: one skip, two serialized messages
C1_Witness ==
    /\ Len(cursor) = 3
    /\ cursor[1].rowid = 1 /\ cursor[2].rowid = 1 /\ cursor[3].rowid = 2
    /\ outcome = <<"rendered", "skipped", "rendered">>
    /\ Cardinality(Units) = 2

\* C2: the serialized messages of one group are all in one file, no file holds
\* messages of two groups (the orphaned messages being a group), and every
\* rendered row has its message in a file.
C2_OneSinkPerGroup ==
    /\ \A p \in DOMAIN disk : Cardinality(GroupsIn(p)) <= 1
    /\ \A p, q \in DOMAIN disk : p # q => GroupsIn(p) \cap GroupsIn(q) = {}
    /\ Cardinality(Units) = Cardinality(RenderedRows)

\* C2 witness: messages of chats 1 and 2, which share an id, are in one file and
\* a message of chat 3 is in another
C2_Witness ==
    /\ Cardinality(DOMAIN disk) = 2
    /\ \E p \in DOMAIN disk :
          {disk[u[1]][u[2]].chat_id : u \in {v \in Units : v[1] = p}} = {1, 2}
    /\ \E p \in DOMAIN disk :
          {disk[u[1]][u[2]].chat_id : u \in {v \in Units : v[1] = p}} = {3}

\* C3: no file is cached before the first row; a path is built at most once per
\* id; the cached ids are the ids of the rendered rows that have a conversation;
\* and the path cached for an id is the one built for the first such row.
C3_LazyCreation ==
    /\ pc \in {"start", "stream", "query"} => DOMAIN files = {}
    /\ \A i, j \in 1..Len(creations) : i # j => creations[i] # creations[j]
    /\ {creations[i] : i \in 1..Len(creations)} = DOMAIN files
    /\ DOMAIN files =
          {conversation(cursor[i]).id : i \in {j \in RenderedRows : conversation(cursor[j]).some}}
    /\ \A id \in DOMAIN files :
          files[id] = PathOf(cursor[First({i \in RenderedRows :
                                             /\ conversation(cursor[i]).some
                                             /\ conversation(cursor[i]).id = id})].chat_id)

\* C3 witness: rows of chat 2 and then chat 1, which share id 1, were rendered
\* and the path was built once, for chat 2
C3_Witness ==
    /\ Len(cursor) = 2
    /\ cursor[1].chat_id = 2 /\ cursor[2].chat_id = 1
    /\ outcome = <<"rendered", "rendered">>
    /\ creations = <<1>>
    /\ files[1] = PathOf(2)

\* a step that renders a row without conversation
RendersOrphan ==
    /\ Len(outcome') = Len(outcome) + 1
    /\ outcome'[Len(outcome')] = "rendered"
    /\ ~conversation(cursor'[Len(cursor')]).some

\* C4: the orphaned path is the one fixed at construction; the message of every
\* rendered row without conversation is in the orphaned file and in no other
\* file; rendering such a row leaves the cache as it is and touches no file but
\* the orphaned one.
C4_OrphanFallback ==
    /\ [](/\ orphaned = new.orphaned
          /\ \A u \in Units : (GroupOf(disk[u[1]][u[2]]) = NoChat) => (u[1] = orphaned)
          /\ Cardinality({u \in Units : u[1] = orphaned})
               = Cardinality({i \in RenderedRows : ~conversation(cursor[i]).some}))
    /\ [][RendersOrphan =>
            /\ files' = files
            /\ creations' = creations
            /\ orphaned' = orphaned
            /\ DOMAIN disk' = DOMAIN disk \cup {orphaned}
            /\ \A p \in DOMAIN disk : p # orphaned => disk'[p] = disk[p]]_vars

\* C4 witness: two rows without conversation were rendered, both are in the
\* orphaned file and nothing is cached
C4_Witness ==
    /\ Cardinality({i \in RenderedRows : cursor[i].chat_id = NoChat}) = 2
    /\ DOMAIN disk = {orphaned}
    /\ Cardinality({u \in Units : u[1] = orphaned}) = 2
    /\ DOMAIN files = {}

\* C5: from_cli resolves every spelling of "txt", "html" and "jsonl", in any
\* mix of upper and lower case, to Txt, Html and Jsonl, and every other token to
\* None.
C5_FromCliCaseInsensitive ==
    pc = "parsed" =>
        /\ token \in CaseVariants(<<"t", "x", "t">>) => export_type = "Txt"
        /\ token \in CaseVariants(<<"h", "t", "m", "l">>) => export_type = "Html"
        /\ token \in CaseVariants(<<"j", "s", "o", "n", "l">>) => export_type = "Jsonl"
        /\ token \notin (CaseVariants(<<"t", "x", "t">>)
                            \cup CaseVariants(<<"h", "t", "m", "l">>)
                            \cup CaseVariants(<<"j", "s", "o", "n", "l">>))
              => export_type = "None"
        /\ export_type \in {"Txt", "Html", "Jsonl", "None"}

\* C5 witness: "jSOnL" was resolved to Jsonl
C5_Witness ==
    /\ pc = "parsed"
    /\ token = <<"j", "S", "O", "n", "L">>
    /\ export_type = "Jsonl"

\* the position the progress bar was moved to last; a new bar is at 0
pb_position == IF positions = <<>> THEN 0 ELSE positions[Len(positions)]

\* C6 as claimed: the positions reported are non-decreasing and, when the run
\* has ended, the position reported last equals the number of rows processed.
C6_FinalReportIsCount ==
    /\ \A i, j \in 1..Len(positions) : i <= j => positions[i] <= positions[j]
    /\ (pc = "returned" /\ result = "Ok") => pb_position = current_message

\* C6 amended: the positions reported are non-decreasing, each is a positive
\* multiple of the step and at most the number of rows processed; a position is
\* reported only as the count at that moment and never after finish; finish is
\* called exactly when the run returns Ok, and it reports no position.
C6_ProgressMonotone ==
    /\ [](/\ \A i, j \in 1..Len(positions) : i <= j => positions[i] <= positions[j]
          /\ \A i \in 1..Len(positions) :
                /\ positions[i] > 0
                /\ positions[i] % ProgressStep = 0
                /\ positions[i] <= current_message
          /\ pb_finished <=> (pc = "returned" /\ result = "Ok"))
    /\ [][/\ positions' # positions =>
                (positions' = Append(positions, current_message') /\ ~pb_finished')
          /\ pb_finished' # pb_finished => positions' = positions]_vars

\* C6 witness: a run of 200 rows has ended; 99 and 198 were reported, 200 was not
C6_Witness ==
    /\ pc = "returned" /\ result = "Ok" /\ pb_finished
    /\ current_message = 200
    /\ positions = <<99, 198>>

\* C7 as claimed: a row whose text generation or serialization fails does not
\* stop the run: its turn of the loop ends, the run does not panic, and a run
\* in which the database calls succeed returns Ok.
C7_RenderFailureNonFatal ==
    /\ \A i \in 1..Len(cursor) :
          cursor[i].kind \in {"gen_fail", "ser_fail"} => outcome[i] \in {"rendered", "skipped"}
    /\ result # "Panic"
    /\ (/\ pc \notin {"start", "stream", "query", "loop"}
        /\ cursor # <<>>
        /\ (\A i \in 1..Len(cursor) : cursor[i].kind # "extract_fail")) => result = "Ok"

\* C8: when iter_messages returns an error the run is over and finish was not
\* called; a failure before the loop leaves no file and no cache entry; a row
\* that cannot be read is the last row pulled, it is neither rendered nor
\* written, and the files hold the messages of the rows rendered before it; the
\* failing step changes no file, no cache entry and no count, and no step
\* follows the return.
C8_SourceErrorFatal ==
    /\ [](/\ result = "Err" => (pc = "returned" /\ ~pb_finished)
          /\ \A i \in 1..Len(cursor) :
                outcome[i] = "extract_failed" => (result = "Err" /\ i = Len(cursor))
          /\ (result = "Err" /\ cursor = <<>>) => (DOMAIN disk = {} /\ DOMAIN files = {})
          /\ result = "Err" =>
                /\ RenderedRows \subseteq 1..(Len(cursor) - 1)
                /\ Cardinality(Units) = Cardinality(RenderedRows)
                /\ current_message = Len(cursor) - (IF cursor = <<>> THEN 0 ELSE 1))
    /\ [][/\ result' = "Err" =>
                /\ disk' = disk
                /\ files' = files
                /\ creations' = creations
                /\ positions' = positions
                /\ current_message' = current_message
          /\ pc # "returned"]_vars

\* C8 witness: two rows were rendered, the third could not be read, and the
\* files hold the two messages
C8_Witness ==
    /\ result = "Err"
    /\ outcome = <<"rendered", "rendered", "extract_failed">>
    /\ Cardinality(Units) = 2

\* C9: the count is the number of rendered rows plus the number of skipped
\* rows, and while the run has not stopped at a row it is the number of rows
\* pulled from the cursor.
C9_SkipStillCounts ==
    /\ current_message = Cardinality(RenderedRows) + Cardinality(SkippedRows)
    /\ current_message = Cardinality(Handled)
    /\ (pc = "loop" \/ result = "Ok") => current_message = Len(cursor)
    /\ \A i \in 1..Len(cursor) : i \notin Handled => i = Len(cursor)

\* C9 witness: three rows were pulled, one of them skipped, and the count is 3
C9_Witness ==
    /\ Len(cursor) = 3
    /\ SkippedRows # {}
    /\ RenderedRows # {}
    /\ current_message = 3

\* C10: while the cursor has yielded no row nothing is rendered, cached, written
\* or reported and the count is 0; when the cursor is exhausted before its first
\* row the run returns Ok, with finish called.
C10_EmptyCursor ==
    /\ [](cursor = <<>> =>
            /\ RenderedRows = {}
            /\ DOMAIN files = {}
            /\ DOMAIN disk = {}
            /\ positions = <<>>
            /\ current_message = 0
            /\ result \in {"none", "Ok", "Err"}
            /\ result = "Ok" <=> pb_finished)
    /\ [][(pc = "loop" /\ cursor = <<>> /\ cursor' = <<>>) =>
            (pc' = "returned" /\ result' = "Ok" /\ pb_finished')]_vars

\* C10 witness: the run over an empty cursor has returned Ok
C10_Witness ==
    /\ cursor = <<>>
    /\ pc = "returned"
    /\ result = "Ok"
    /\ pb_finished
    /\ current_message = 0

-----------------------------------------------------------------------------
(* Reading the files back *)

\* the group of a row: its deduplicated chat id, or NoChat
RowGroup(row) == IF conversation(row).some THEN conversation(row).id ELSE NoChat

\* the file of a group that has one
SinkOf(g) == IF g = NoChat THEN orphaned ELSE files[g]

\* the groups of the rendered rows
RenderedGroups == {RowGroup(cursor[i]) : i \in RenderedRows}

\* the elements of a finite set of row indices, in increasing order
RECURSIVE Ascending(_)
Ascending(S) == IF S = {} THEN <<>> ELSE <<First(S)>> \o Ascending(S \ {First(S)})

\* the rendered rows of group g, in cursor order
RowsOf(g) == Ascending({i \in RenderedRows : RowGroup(cursor[i]) = g})

\* the lines of a file: the text before each newline, and what follows the last one
RECURSIVE Lines(_)
Lines(content) ==
    IF content = <<>> THEN <<>>
    ELSE LET nls == {i \in 1..Len(content) : content[i].tok = "nl"}
         IN  IF nls = {} THEN <<content>>
             ELSE <<SubSeq(content, 1, First(nls) - 1)>>
                    \o Lines(SubSeq(content, First(nls) + 1, Len(content)))

\* what a message holds
Payload(row) == [rowid |-> row.rowid, chat_id |-> row.chat_id, text |-> gen_text(row)]

\* a line parsed as one JSON value; a line that is none parses to no message
ParseLine(line) ==
    IF Len(line) = 1 /\ line[1].tok = "json"
    THEN [rowid |-> line[1].rowid, chat_id |-> line[1].chat_id, text |-> line[1].text]
    ELSE [rowid |-> -1, chat_id |-> -1, text |-> "malformed"]

\* C11: every file is the file of a group with rendered rows and ends with a
\* newline; read line by line, the file of a group yields as many lines as the
\* group has rendered rows, and line k parses to what the k-th of them holds.
C11_LinesRoundTrip ==
    /\ DOMAIN disk = {SinkOf(g) : g \in RenderedGroups}
    /\ \A g \in RenderedGroups :
          LET content == disk[SinkOf(g)]
              lines == Lines(content)
              rows == RowsOf(g)
          IN  /\ content[Len(content)] = NL
              /\ Len(lines) = Len(rows)
              /\ \A k \in 1..Len(rows) : ParseLine(lines[k]) = Payload(cursor[rows[k]])

\* C11 witness: the file of id 1 holds two lines, of the rows of chat 1 and of
\* chat 2, the second without text, and the orphaned file holds one
C11_Witness ==
    /\ Len(cursor) = 3
    /\ cursor[1].chat_id = 1 /\ cursor[2].chat_id = NoChat /\ cursor[3].chat_id = 2
    /\ cursor[3].kind = "gen_fail"
    /\ outcome = <<"rendered", "rendered", "rendered">>
    /\ Len(Lines(disk[files[1]])) = 2
    /\ Len(Lines(disk[orphaned])) = 1

\* C12 as claimed: the positions reported are exactly the multiples of the step
\* that the count has reached, whether the row that brought the count there was
\* rendered or skipped.
C12_EveryStepReported ==
    {positions[i] : i \in 1..Len(positions)}
        = {n \in 1..current_message : n % ProgressStep = 0}

\* C13: the cache has as many entries as the rendered rows have groups with a
\* conversation, at the end of the run as at any moment of it; a skipped row
\* whose group has no rendered row has no entry; and rows A, A, B of groups G1,
\* G1, G2 give 2 rendered rows, 1 skipped row and entries for exactly G1 and G2.
C13_CacheCountsRenderedGroups ==
    /\ Cardinality(DOMAIN files) = Cardinality(RenderedGroups \ {NoChat})
    /\ \A i \in SkippedRows :
          RowGroup(cursor[i]) \notin RenderedGroups => RowGroup(cursor[i]) \notin DOMAIN files
    /\ (/\ Handled = 1..3
        /\ cursor[1].rowid = cursor[2].rowid /\ cursor[2].rowid # cursor[3].rowid
        /\ RowGroup(cursor[1]) = RowGroup(cursor[2])
        /\ RowGroup(cursor[1]) # RowGroup(cursor[3])
        /\ NoChat \notin {RowGroup(cursor[1]), RowGroup(cursor[3])})
          => /\ Cardinality(RenderedRows) = 2
             /\ Cardinality(SkippedRows) = 1
             /\ DOMAIN files = {RowGroup(cursor[1]), RowGroup(cursor[3])}

\* C13 witness: the run has ended; a row of chat 3 repeated the ROWID of a row of
\* chat 1 and was skipped, and the cache holds the entry of id 1 alone
C13_Witness ==
    /\ pc = "returned" /\ result = "Ok"
    /\ Len(cursor) = 2
    /\ cursor[1].chat_id = 1 /\ cursor[2].chat_id = 3
    /\ outcome = <<"rendered", "skipped">>
    /\ DOMAIN files = {1}

\* a token of a file is a serialized message
IsJson(t) == t.tok = "json"

\* the serialized messages of a file, in file order
UnitsOf(p) == SelectSeq(disk[p], IsJson)

\* C14: the serialized messages of the file of a group are those of the
\* rendered rows of the group pulled so far, in the order the cursor yielded
\* them; and every step keeps every file and what it holds, adding at its end.
C14_CursorOrderInSink ==
    /\ [](\A g \in RenderedGroups :
            LET units == UnitsOf(SinkOf(g))
                rows == RowsOf(g)
            IN  /\ Len(units) = Len(rows)
                /\ \A k \in 1..Len(rows) :
                      /\ units[k].rowid = cursor[rows[k]].rowid
                      /\ units[k].chat_id = cursor[rows[k]].chat_id
                      /\ units[k].text = gen_text(cursor[rows[k]]))
    /\ [][\A p \in DOMAIN disk :
            /\ p \in DOMAIN disk'
            /\ Len(disk'[p]) >= Len(disk[p])
            /\ SubSeq(disk'[p], 1, Len(disk[p])) = disk[p]]_vars

\* C14 witness: rows of chat 2, chat 1 and chat 3 were rendered; the file of id 1
\* holds the message with ROWID 2 before the message with ROWID 1
C14_Witness ==
    /\ Len(cursor) = 3
    /\ cursor[1].chat_id = 2 /\ cursor[2].chat_id = 1 /\ cursor[3].chat_id = 3
    /\ cursor[1].rowid = 2 /\ cursor[2].rowid = 1
    /\ outcome = <<"rendered", "rendered", "rendered">>
    /\ Len(UnitsOf(files[1])) = 2
    /\ UnitsOf(files[1])[1].rowid = 2
    /\ UnitsOf(files[1])[2].rowid = 1

\* a step that skips a row
SkipsRow ==
    /\ Len(outcome') = Len(outcome) + 1
    /\ outcome'[Len(outcome')] = "skipped"

\* C15: every step keeps every entry of the cache, with its path, and keeps the
\* orphaned path; a step that skips a row changes neither the cache, nor what a
\* file holds, nor the ROWID remembered as rendered last.
C15_CacheStable ==
    [][/\ \A id \in DOMAIN files : id \in DOMAIN files' /\ files'[id] = files[id]
       /\ orphaned' = orphaned
       /\ SkipsRow =>
            /\ files' = files
            /\ creations' = creations
            /\ disk' = disk
            /\ current_message_row' = current_message_row]_vars

\* C15 witness: a row of chat 1 was rendered, a row was skipped and a row of
\* chat 2, of the same id, was rendered; the entry of id 1 is the path of chat 1
C15_Witness ==
    /\ Len(cursor) = 3
    /\ cursor[1].chat_id = 1 /\ cursor[3].chat_id = 2
    /\ outcome = <<"rendered", "skipped", "rendered">>
    /\ DOMAIN files = {1}
    /\ files[1] = PathOf(1)
    /\ orphaned = new.orphaned

\* the last element of a non-empty set of row indices
Latest(S) == CHOOSE i \in S : \A j \in S : j <= i

\* C16: no ROWID of the table is the value -1 remembered at the start, and the
\* first row is never skipped: when its turn of the loop ends it is rendered and
\* its message is the first of its file. The ROWID remembered is -1 until a row
\* passes the early escape and from then on the ROWID of the row rendered last
\* (of the row being serialized, when the run panicked there).
C16_FirstRowRendered ==
    /\ \A i \in 1..Len(cursor) : cursor[i].rowid # -1
    /\ cursor # <<>> => outcome[1] # "skipped"
    /\ 1 \in Handled =>
          /\ outcome[1] = "rendered"
          /\ UnitsOf(SinkOf(RowGroup(cursor[1])))[1].rowid = cursor[1].rowid
    /\ current_message_row =
          IF pc = "panicked" THEN cursor[Len(cursor)].rowid
          ELSE IF RenderedRows = {} THEN -1
          ELSE cursor[Latest(RenderedRows)].rowid

\* C16 witness: the first two rows were rendered and the third skipped; the
\* ROWID remembered is that of the second row
C16_Witness ==
    /\ outcome = <<"rendered", "rendered", "skipped">>
    /\ current_message_row = cursor[2].rowid
    /\ current_message_row # cursor[1].rowid
    /\ Cardinality(Units) = 2

\* C17: the displayed names of the three variants are pairwise distinct, and
\* from_cli of the displayed name of a variant is that variant: resolving the
\* name leaves the variant as it was, and the variant resolved displays as the
\* name.
C17_DisplayRoundTrip ==
    /\ [](/\ \A v, w \in Variants : v # w => fmt(v) # fmt(w)
          /\ pc \in {"shown", "roundtrip"} =>
                (export_type \in Variants /\ token = fmt(export_type)))
    /\ [][pc = "shown" => export_type' = export_type]_vars

\* C17 witness: Jsonl was displayed as "jsonl" and resolved to Jsonl again
C17_Witness ==
    /\ pc = "roundtrip"
    /\ token = <<"j", "s", "o", "n", "l">>
    /\ export_type = "Jsonl"

====
